---- MODULE Spec2Model ----
(***************************************************************************)
(* A model of wt_reader.py: class WiredTigerReader (connect,               *)
(* list_collections, read_collection, close) and the script's main().      *)
(*                                                                         *)
(* The wiredtiger engine is the environment.  Its calls that can fail      *)
(* (wiredtiger_open, open_session, open_cursor, cursor.next, get_key,      *)
(* get_value, the metadata iteration) fail nondeterministically; the       *)
(* close calls release the handle they are given.                          *)
(*                                                                         *)
(* Strings the code inspects (URIs, the limit argument) are sequences of   *)
(* one-character strings, so that startswith, split and int() are          *)
(* computed and not assumed.                                               *)
(***************************************************************************)
EXTENDS Integers, Sequences, FiniteSets, TLC

\* ------------------------------------------------------------------ bounds
\* Largest number of records a table holds.
MaxRecords == 3
\* Largest number of method calls a client other than main() makes.
MaxCalls == 3

\* The loop of read_collection is never allowed more cursor.next() calls
\* than this; the code itself never comes near it (see C10).
AdvanceCap == MaxRecords + 3

\* ----------------------------------------------------------------- strings
Str_table == <<"t", "a", "b", "l", "e", ":">>
Str_index == <<"i", "n", "d", "e", "x", "-">>
Str_sizeStorer == <<"s", "i", "z", "e", "S", "t", "o", "r", "e", "r">>

\* str.startswith(prefix)
StartsWith(s, p) ==
    /\ Len(p) <= Len(s)
    /\ \A i \in 1..Len(p) : s[i] = p[i]

\* Index of the first occurrence of character c in s at or after i; 0 if none.
RECURSIVE FindChar(_, _, _)
FindChar(s, c, i) ==
    IF i > Len(s) THEN 0
    ELSE IF s[i] = c THEN i
    ELSE FindChar(s, c, i + 1)

\* s.split(c, 1)[1]: what follows the first c.  (Only applied to strings
\* that contain c; Python raises IndexError otherwise.)
SplitOnce1(s, c) ==
    LET k == FindChar(s, c, 1) IN SubSeq(s, k + 1, Len(s))

Digits == {"0", "1", "2", "3", "4", "5", "6", "7", "8", "9"}

DigitVal(c) ==
    CASE c = "0" -> 0 [] c = "1" -> 1 [] c = "2" -> 2 [] c = "3" -> 3
      [] c = "4" -> 4 [] c = "5" -> 5 [] c = "6" -> 6 [] c = "7" -> 7
      [] c = "8" -> 8 [] c = "9" -> 9

RECURSIVE DigitsVal(_, _, _)
DigitsVal(s, i, acc) ==
    IF i > Len(s) THEN acc ELSE DigitsVal(s, i + 1, 10 * acc + DigitVal(s[i]))

\* int(s) for a string of sign and digit characters or letters: the value,
\* or ValueError.  [ok |-> FALSE] stands for the raised ValueError.
ParseInt(s) ==
    LET signed == Len(s) >= 1 /\ s[1] \in {"-", "+"}
        body   == IF signed THEN SubSeq(s, 2, Len(s)) ELSE s
    IN  IF Len(body) >= 1 /\ \A i \in 1..Len(body) : body[i] \in Digits
        THEN [ok  |-> TRUE,
              val |-> IF signed /\ s[1] = "-"
                      THEN 0 - DigitsVal(body, 1, 0)
                      ELSE DigitsVal(body, 1, 0)]
        ELSE [ok |-> FALSE, val |-> 0]

\* ------------------------------------------------------------ the store
\* The metadata keys a store may hold, in the metadata cursor's (sorted) order.
MetaPool ==
    << <<"f", "i", "l", "e", ":", "a">>,
       Str_table \o <<"a">>,
       Str_table \o <<"b", ":", "c">>,
       Str_table \o Str_index \o <<"a">>,
       Str_table \o Str_sizeStorer,
       Str_table \o Str_sizeStorer \o <<"X">> >>

\* The metadata of a store holding the pool entries whose index is in S.
RECURSIVE PickMeta(_, _)
PickMeta(S, i) ==
    IF i > Len(MetaPool) THEN << >>
    ELSE (IF i \in S THEN <<MetaPool[i]>> ELSE << >>) \o PickMeta(S, i + 1)

\* Stores: no entry, one entry, all entries but one, every entry.
MetaChoices ==
    {PickMeta(S, 1) : S \in {T \in SUBSET (1..Len(MetaPool)) :
                                Cardinality(T) \in {0, 1, Len(MetaPool) - 1, Len(MetaPool)}}}

Range(f) == {f[i] : i \in DOMAIN f}

\* Table names a caller asks for: one that may exist, one that never does.
TableArgs == { <<"a">>, <<"z", "z">> }

\* Python's None and int values, for the limit parameter.
None == [kind |-> "None"]
IntVal(i) == [kind |-> "int", val |-> i]


\* ------------------------------------------------------------ the engine
\* wiredtiger.WT_NOTFOUND, the status of an exhausted cursor.
WT_NOTFOUND == -31803

\* Status codes of genuine engine faults (WT_ERROR).
ErrorCodes == {-31802}

\* A raised wiredtiger.WiredTigerError, by what the code inspects of it:
\* whether str(e) contains "WT_NOTFOUND", whether e has an errno attribute,
\* and its value.
NoErrno(m) == [msgNF |-> m, hasErrno |-> FALSE, errno |-> 0]
WithErrno(m, c) == [msgNF |-> m, hasErrno |-> TRUE, errno |-> c]
Excs ==
    {NoErrno(m) : m \in BOOLEAN}
      \cup {WithErrno(m, c) : m \in BOOLEAN, c \in {WT_NOTFOUND} \cup ErrorCodes}

\* Outcomes of one engine call: a returned status, or a raised error.
Ret(c) == [kind |-> "ret", code |-> c, exc |-> NoErrno(FALSE)]
Raise(e) == [kind |-> "raise", code |-> 0, exc |-> e]
NoCall == [kind |-> "none", code |-> 0, exc |-> NoErrno(FALSE)]

\* cursor.next() on a cursor that has passed p of the table's n records:
\* 0 while records remain and WT_NOTFOUND once exhausted, or a fault.
NextOutcomes(p, n) ==
    {Ret(IF p < n THEN 0 ELSE WT_NOTFOUND)}
      \cup {Ret(c) : c \in ErrorCodes}
      \cup {Raise(e) : e \in Excs}

\* cursor.get_key() / cursor.get_value(): the datum, or a raised error.
GetOutcomes == {Ret(0)} \cup {Raise(e) : e \in Excs}

\* The records of a table, in the cursor's native (key) order.
TableRecords(n) == [i \in 1..n |-> [key |-> i, value |-> <<i, i>>]]

\* ---------------------------------------------------------------- state
VARIABLES
    mode,          \* who drives the reader: "main" (the script) or "api"
    pc,            \* the position of the single thread of control
    argv,          \* sys.argv
    meta,          \* the store's metadata keys, in cursor order
    nrec,          \* the number of records each table of the store holds
    conn,          \* self.conn    (0 is None, otherwise an engine handle)
    session,       \* self.session (0 is None, otherwise an engine handle)
    openConns,     \* engine: connections opened and not closed
    openSessions,  \* engine: sessions opened and not closed
    openCursors,   \* engine: cursors opened and not closed
    nextId,        \* engine: the next handle
    connRet,       \* what the last connect() returned: "none", "true", "false"
    wtOpened,      \* a wiredtiger_open call has succeeded
    everConnected, \* a connect() call has returned True
    collections,   \* what the last list_collections() returned
    listOutcome,   \* how it went: "none", "nosession", "ok", "open_fail", "iter_fail"
    rtable,        \* read_collection: collection_name
    rlimit,        \* read_collection: limit
    cursor,        \* read_collection: cursor (0 before open_cursor returns)
    pos,           \* engine: records the read cursor has passed
    documents,     \* read_collection: documents
    count,         \* read_collection: count
    advances,      \* cursor.next() calls made by the current read_collection
    readErr,       \* an engine call of the current read_collection failed
    missing,       \* its open_cursor failed because the table does not exist
    lastAdv,       \* the outcome of its latest cursor.next()
    result,        \* what the last read_collection() returned
    exitCode,      \* the process's exit status; -1 while it runs
    pendingExc,    \* main: an exception is propagating through finally
    closeCalls,    \* the engine calls the last close() made, in order
    closeRaised,   \* the last close() raised
    lastOp,        \* api: the call that returned last
    calls          \* api: calls made so far

storeVars == <<mode, argv, meta, nrec>>
readerVars == <<conn, session>>
engineVars == <<openConns, openSessions, openCursors, nextId>>
connectVars == <<connRet, wtOpened, everConnected>>
readArgs == <<rtable, rlimit>>
readVars == <<cursor, pos, documents, count, advances, readErr, missing, lastAdv, result>>
mainVars == <<exitCode, pendingExc>>
closeVars == <<closeCalls, closeRaised>>
apiVars == <<lastOp, calls>>

listVars == <<collections, listOutcome>>

vars == <<pc, storeVars, readerVars, engineVars, connectVars, listVars,
          readArgs, readVars, mainVars, closeVars, apiVars>>

\* Command lines: the program name, a directory, a table, a limit.
ProgArg == <<"w", "t">>
DirArg == <<"d">>
LimitArgs == { <<"2">>, <<"0">>, <<"-", "1">>, <<"1", "x">>, << >> }
ArgvChoices ==
    { <<ProgArg>>, <<ProgArg, DirArg>> }
      \cup { <<ProgArg, DirArg, t>> : t \in TableArgs }
      \cup { <<ProgArg, DirArg, t, l>> : t \in TableArgs, l \in LimitArgs }

\* The limit values an api client passes.
LimitChoices == {None} \cup {IntVal(i) : i \in (0 - 1)..(MaxRecords - 1)}

\* __init__ (conn and session None), before any call.
Init ==
    /\ mode \in {"main", "api"}
    /\ pc = IF mode = "main" THEN "m_start" ELSE "idle"
    /\ argv \in (IF mode = "main" THEN ArgvChoices ELSE { <<ProgArg>> })
    /\ meta \in MetaChoices
    /\ nrec \in 0..MaxRecords
    /\ conn = 0
    /\ session = 0
    /\ openConns = {}
    /\ openSessions = {}
    /\ openCursors = {}
    /\ nextId = 1
    /\ connRet = "none"
    /\ wtOpened = FALSE
    /\ everConnected = FALSE
    /\ collections = << >>
    /\ listOutcome = "none"
    /\ rtable = << >>
    /\ rlimit = None
    /\ cursor = 0
    /\ pos = 0
    /\ documents = << >>
    /\ count = 0
    /\ advances = 0
    /\ readErr = FALSE
    /\ missing = FALSE
    /\ lastAdv = NoCall
    /\ result = << >>
    /\ exitCode = -1
    /\ pendingExc = FALSE
    /\ closeCalls = << >>
    /\ closeRaised = FALSE
    /\ lastOp = "none"
    /\ calls = 0


\* ------------------------------------------------------- WiredTigerReader
\* The guard gone: every value passes for a handle.
IsSetAlways(h) == TRUE

\* `if self.session` / `if not self.session`: None is falsy, a handle truthy.
IsSet(h) == h # 0

\* connect(): wiredtiger_open, then open_session; either may raise, and the
\* except clause returns False with whatever was assigned before the raise.
Connect ==
    /\ pc = "connect"
    /\ \E o \in {"ok", "open_fail", "session_fail"} :
        /\ conn' = IF o = "open_fail" THEN conn ELSE nextId
        /\ session' = IF o = "ok" THEN nextId + 1 ELSE session
        /\ openConns' = IF o = "open_fail" THEN openConns ELSE openConns \cup {nextId}
        /\ openSessions' = IF o = "ok" THEN openSessions \cup {nextId + 1} ELSE openSessions
        /\ nextId' = IF o = "open_fail" THEN nextId
                     ELSE IF o = "ok" THEN nextId + 2 ELSE nextId + 1
        /\ connRet' = IF o = "ok" THEN "true" ELSE "false"
        /\ wtOpened' = (wtOpened \/ o # "open_fail")
        /\ everConnected' = (everConnected \/ o = "ok")
    /\ pc' = "connect_ret"
    /\ UNCHANGED <<storeVars, openCursors, listVars, readArgs, readVars,
                   mainVars, closeVars, apiVars>>

\* The filter with the index exclusion forgotten.
IncludedNoIndexCheck(uri) ==
    /\ StartsWith(uri, Str_table)
    /\ ~StartsWith(uri, Str_table \o Str_sizeStorer)

\* The filter of list_collections.
Included(uri) ==
    /\ StartsWith(uri, Str_table)
    /\ ~StartsWith(uri, Str_table \o Str_index)
    /\ ~StartsWith(uri, Str_table \o Str_sizeStorer)

\* uri.split(":", 1)[1]
CollectionName(uri) == SplitOnce1(uri, ":")

\* The for loop of list_collections over the metadata keys m, from the
\* i-th on, with the names collected so far.
RECURSIVE ListLoop(_, _, _)
ListLoop(m, i, acc) ==
    IF i > Len(m) THEN acc
    ELSE ListLoop(m, i + 1,
                  IF Included(m[i]) THEN Append(acc, CollectionName(m[i])) ELSE acc)

\* list_collections(): the whole call.  open_cursor('metadata:') or the
\* iteration may raise; the except clause returns [] and closes nothing.
List ==
    /\ pc = "list"
    /\ IF ~IsSet(session)
       THEN /\ collections' = << >>
            /\ listOutcome' = "nosession"
            /\ UNCHANGED engineVars
       ELSE \E o \in {"ok", "open_fail", "iter_fail"} :
            /\ collections' = IF o = "ok" THEN ListLoop(meta, 1, << >>) ELSE << >>
            /\ listOutcome' = o
            /\ openCursors' = IF o = "iter_fail" THEN openCursors \cup {nextId}
                              ELSE openCursors
            /\ nextId' = IF o = "open_fail" THEN nextId ELSE nextId + 1
            /\ UNCHANGED <<openConns, openSessions>>
    /\ pc' = "list_ret"
    /\ UNCHANGED <<storeVars, readerVars, connectVars, readArgs, readVars,
                   mainVars, closeVars, apiVars>>


\* f"table:{collection_name}"
TableUri(name) == Str_table \o name

\* The limit test written `if limit is not None`: 0 is then a limit.
TruthyNotNone(limit) == limit.kind = "int"

\* `if limit`: None and 0 are falsy, every other int is truthy.
Truthy(limit) == limit.kind = "int" /\ limit.val # 0

\* The limit test off by one: `count > limit`.
LimitReachedLate(limit, cnt) == Truthy(limit) /\ cnt > limit.val

\* `if limit and count >= limit`
LimitReached(limit, cnt) == Truthy(limit) /\ cnt >= limit.val

\* The test by errno alone, the message text ignored.
IsNotFoundExcErrnoOnly(e) == e.hasErrno /\ e.errno = WT_NOTFOUND

\* `"WT_NOTFOUND" in str(e) or e.errno == wiredtiger.WT_NOTFOUND`.  When the
\* message does not match and e has no errno attribute, the test raises
\* AttributeError, which leaves the loop like the re-raise does.
IsNotFoundExc(e) == e.msgNF \/ (e.hasErrno /\ e.errno = WT_NOTFOUND)

\* The inner except clause: leave the loop, or raise to the outer one.
ExcVerdict(e) == IF IsNotFoundExc(e) THEN "break" ELSE "raise"

\* The status check without the WT_NOTFOUND case: exhaustion is an error.
RetVerdictNotFoundFatal(ret, limit, cnt) ==
    IF ret # 0
    THEN ExcVerdict(NoErrno(FALSE))
    ELSE IF LimitReached(limit, cnt) THEN "break" ELSE "fetch"

\* The checks after ret = cursor.next() returned: the status, then the limit.
\* The error raised for another status carries only a message with the code.
RetVerdict(ret, limit, cnt) ==
    IF ret # 0
    THEN IF ret = WT_NOTFOUND THEN "break" ELSE ExcVerdict(NoErrno(FALSE))
    ELSE IF LimitReached(limit, cnt) THEN "break" ELSE "fetch"

AdvanceVerdict(out, limit, cnt) ==
    IF out.kind = "raise" THEN ExcVerdict(out.exc)
    ELSE RetVerdict(out.code, limit, cnt)

\* `continue` written where `break` belongs.
PcAfterContinue(verdict) ==
    CASE verdict = "break" -> "r_loop"
      [] verdict = "raise" -> "read_ret"
      [] verdict = "append" -> "r_loop"

\* Where control goes: break leads to cursor.close(), an exception to the
\* outer except clause (return []), an appended record to the loop's head.
PcAfter(verdict) ==
    CASE verdict = "break" -> "r_close"
      [] verdict = "raise" -> "read_ret"
      [] verdict = "append" -> "r_loop"

\* What read_collection's locals and ghosts are when the body starts.
ReadEntry ==
    /\ pos' = 0
    /\ documents' = << >>
    /\ count' = 0
    /\ advances' = 0
    /\ lastAdv' = NoCall

\* read_collection(): the guard `if not self.session`.
ReadNoSession ==
    /\ pc = "read"
    /\ ~IsSet(session)
    /\ ReadEntry
    /\ cursor' = 0
    /\ readErr' = FALSE
    /\ missing' = FALSE
    /\ result' = << >>
    /\ pc' = "read_ret"
    /\ UNCHANGED <<storeVars, readerVars, engineVars, connectVars, listVars,
                   readArgs, mainVars, closeVars, apiVars>>

\* read_collection(): open_cursor succeeds (the table exists).
ReadOpenCursor ==
    /\ pc = "read"
    /\ IsSet(session)
    /\ TableUri(rtable) \in Range(meta)
    /\ ReadEntry
    /\ cursor' = nextId
    /\ openCursors' = openCursors \cup {nextId}
    /\ nextId' = nextId + 1
    /\ readErr' = FALSE
    /\ missing' = FALSE
    /\ result' = << >>
    /\ pc' = "r_loop"
    /\ UNCHANGED <<storeVars, readerVars, openConns, openSessions, connectVars,
                   listVars, readArgs, mainVars, closeVars, apiVars>>

\* The outer except clause also dropping the session.
ReadOpenFailDropsSession ==
    /\ pc = "read"
    /\ IsSet(session)
    /\ ReadEntry
    /\ cursor' = 0
    /\ readErr' = TRUE
    /\ missing' = (TableUri(rtable) \notin Range(meta))
    /\ result' = << >>
    /\ session' = 0
    /\ pc' = "read_ret"
    /\ UNCHANGED <<storeVars, conn, engineVars, connectVars, listVars,
                   readArgs, mainVars, closeVars, apiVars>>

\* read_collection(): open_cursor raises, because the table does not exist
\* or for an engine fault; the outer except clause returns [].
ReadOpenFail ==
    /\ pc = "read"
    /\ IsSet(session)
    /\ ReadEntry
    /\ cursor' = 0
    /\ readErr' = TRUE
    /\ missing' = (TableUri(rtable) \notin Range(meta))
    /\ result' = << >>
    /\ pc' = "read_ret"
    /\ UNCHANGED <<storeVars, readerVars, engineVars, connectVars, listVars,
                   readArgs, mainVars, closeVars, apiVars>>

\* One iteration of `while True`: cursor.next(), the status and limit
\* checks, get_key(), get_value(), append; with both except clauses.
ReadStep ==
    /\ pc = "r_loop"
    /\ advances < AdvanceCap
    /\ \E out \in NextOutcomes(pos, nrec) :
        LET first == AdvanceVerdict(out, rlimit, count)
            fetch == first = "fetch"
        IN  \E k \in (IF fetch THEN GetOutcomes ELSE {Ret(0)}) :
            \E v \in (IF fetch /\ k.kind = "ret" THEN GetOutcomes ELSE {Ret(0)}) :
            LET verdict == IF ~fetch THEN first
                           ELSE IF k.kind = "raise" THEN ExcVerdict(k.exc)
                           ELSE IF v.kind = "raise" THEN ExcVerdict(v.exc)
                           ELSE "append"
                newpos == IF out = Ret(0) THEN pos + 1 ELSE pos
                rec == TableRecords(nrec)[newpos]
            IN  /\ pos' = newpos
                /\ advances' = advances + 1
                /\ lastAdv' = out
                /\ readErr' = (readErr \/ out \notin {Ret(0), Ret(WT_NOTFOUND)}
                                 \/ k.kind = "raise" \/ v.kind = "raise")
                /\ documents' = IF verdict = "append"
                                THEN Append(documents, [key |-> rec.key, value |-> rec.value])
                                ELSE documents
                /\ count' = IF verdict = "append" THEN count + 1 ELSE count
                /\ result' = IF verdict = "raise" THEN << >> ELSE result
                /\ pc' = PcAfter(verdict)
    /\ UNCHANGED <<storeVars, readerVars, engineVars, connectVars, listVars,
                   readArgs, cursor, missing, mainVars, closeVars, apiVars>>

\* After the loop: cursor.close(); return documents.
ReadFinish ==
    /\ pc = "r_close"
    /\ openCursors' = openCursors \ {cursor}
    /\ result' = documents
    /\ pc' = "read_ret"
    /\ UNCHANGED <<storeVars, readerVars, openConns, openSessions, nextId,
                   connectVars, listVars, readArgs, cursor, pos, documents, count,
                   advances, readErr, missing, lastAdv, mainVars, closeVars, apiVars>>

\* The handle kept after it is closed (the assignment of None forgotten).
ClearedKept(h) == h

\* `self.session = None` / `self.conn = None` after the handle is closed.
Cleared(h) == 0

\* close(): session.close() if a session is set, then conn.close() if a
\* connection is set.  A close call on a handle the engine does not hold
\* open raises, and the rest of close() is skipped.
Close ==
    /\ pc = "close"
    /\ LET sCall == IsSet(session)
           sBad  == sCall /\ session \notin openSessions
           cCall == ~sBad /\ IsSet(conn)
           cBad  == cCall /\ conn \notin openConns
       IN  /\ closeCalls' = (IF sCall THEN <<"session.close">> ELSE << >>)
                              \o (IF cCall THEN <<"conn.close">> ELSE << >>)
           /\ closeRaised' = (sBad \/ cBad)
           /\ openSessions' = IF sCall THEN openSessions \ {session} ELSE openSessions
           /\ session' = IF sCall /\ ~sBad THEN Cleared(session) ELSE session
           /\ openConns' = IF cCall THEN openConns \ {conn} ELSE openConns
           /\ conn' = IF cCall /\ ~cBad THEN Cleared(conn) ELSE conn
    /\ pc' = "close_ret"
    /\ UNCHANGED <<storeVars, openCursors, nextId, connectVars, listVars,
                   readArgs, readVars, mainVars, apiVars>>

\* ------------------------------------------------------------------ main
\* `if len(sys.argv) < 2: sys.exit(1)`, else construct the reader and connect.
MainStart ==
    /\ mode = "main"
    /\ pc = "m_start"
    /\ IF Len(argv) < 2
       THEN exitCode' = 1 /\ pc' = "done"
       ELSE exitCode' = exitCode /\ pc' = "connect"
    /\ UNCHANGED <<storeVars, readerVars, engineVars, connectVars, listVars,
                   readArgs, readVars, pendingExc, closeVars, apiVars>>

\* The result of connect() ignored.
ExitAfterConnectNever(ret) == FALSE

\* `if not reader.connect()`
ExitAfterConnect(ret) == ret = "false"

\* `if not reader.connect(): sys.exit(1)`, else enter the try block.
MainAfterConnect ==
    /\ mode = "main"
    /\ pc = "connect_ret"
    /\ IF ExitAfterConnect(connRet)
       THEN exitCode' = 1 /\ pc' = "done"
       ELSE exitCode' = exitCode /\ pc' = "list"
    /\ UNCHANGED <<storeVars, readerVars, engineVars, connectVars, listVars,
                   readArgs, readVars, pendingExc, closeVars, apiVars>>

\* After list_collections() returned: print, and with a table argument
\* parse the limit (int() may raise ValueError into finally) and read.
MainAfterList ==
    /\ mode = "main"
    /\ pc = "list_ret"
    /\ IF Len(argv) > 2
       THEN IF Len(argv) > 3 /\ ~ParseInt(argv[4]).ok
            THEN /\ pendingExc' = TRUE
                 /\ pc' = "close"
                 /\ UNCHANGED readArgs
            ELSE /\ rtable' = argv[3]
                 /\ rlimit' = IF Len(argv) > 3 THEN IntVal(ParseInt(argv[4]).val) ELSE None
                 /\ pc' = "read"
                 /\ UNCHANGED pendingExc
       ELSE /\ pc' = "close"
            /\ UNCHANGED <<readArgs, pendingExc>>
    /\ UNCHANGED <<storeVars, readerVars, engineVars, connectVars, listVars,
                   readVars, exitCode, closeVars, apiVars>>

\* After read_collection() returned: print, and leave the try block.
MainAfterRead ==
    /\ mode = "main"
    /\ pc = "read_ret"
    /\ pc' = "close"
    /\ UNCHANGED <<storeVars, readerVars, engineVars, connectVars, listVars,
                   readArgs, readVars, mainVars, closeVars, apiVars>>

\* The interpreter's exit status: 1 for an uncaught exception, else 0.
ExitStatus(exc) == IF exc THEN 1 ELSE 0

\* After finally's reader.close(): the process ends.
MainExit ==
    /\ mode = "main"
    /\ pc = "close_ret"
    /\ exitCode' = ExitStatus(pendingExc \/ closeRaised)
    /\ pc' = "done"
    /\ UNCHANGED <<storeVars, readerVars, engineVars, connectVars, listVars,
                   readArgs, readVars, pendingExc, closeVars, apiVars>>

\* ------------------------------------------------- any other client
\* A client calls a public method of the reader it constructed.
ApiCall ==
    /\ mode = "api"
    /\ pc = "idle"
    /\ calls < MaxCalls
    /\ calls' = calls + 1
    /\ \/ pc' \in {"connect", "list", "close"} /\ UNCHANGED readArgs
       \/ /\ pc' = "read"
          /\ rtable' \in TableArgs
          /\ rlimit' \in LimitChoices
    /\ UNCHANGED <<storeVars, readerVars, engineVars, connectVars, listVars,
                   readVars, mainVars, closeVars, lastOp>>

\* The call returns to the client: the finished call's frame and return
\* value are gone, and only which call it was is remembered.
ApiReturn ==
    /\ mode = "api"
    /\ pc \in {"connect_ret", "list_ret", "read_ret", "close_ret"}
    /\ lastOp' = CASE pc = "connect_ret" -> "connect"
                   [] pc = "list_ret" -> "list"
                   [] pc = "read_ret" -> IF missing THEN "read_missing" ELSE "read"
                   [] pc = "close_ret" -> "close"
    /\ pc' = "idle"
    /\ connRet' = "none"
    /\ collections' = << >>
    /\ listOutcome' = "none"
    /\ rtable' = << >>
    /\ rlimit' = None
    /\ ReadEntry
    /\ cursor' = 0
    /\ readErr' = FALSE
    /\ missing' = FALSE
    /\ result' = << >>
    /\ closeCalls' = << >>
    /\ closeRaised' = FALSE
    /\ UNCHANGED <<storeVars, readerVars, engineVars, wtOpened, everConnected,
                   mainVars, calls>>

Next ==
    \/ Connect
    \/ List
    \/ ReadNoSession
    \/ ReadOpenCursor
    \/ ReadOpenFail
    \/ ReadStep
    \/ ReadFinish
    \/ Close
    \/ MainStart
    \/ MainAfterConnect
    \/ MainAfterList
    \/ MainAfterRead
    \/ MainExit
    \/ ApiCall
    \/ ApiReturn

Spec == Init /\ [][Next]_vars

\* A run of the script alone.  main() calls read_collection only after
\* connect() returned True, so the session guard never returns there.
InitMain == Init /\ mode = "main"

NextMain ==
    \/ Connect
    \/ List
    \/ ReadOpenCursor
    \/ ReadOpenFail
    \/ ReadStep
    \/ ReadFinish
    \/ Close
    \/ MainStart
    \/ MainAfterConnect
    \/ MainAfterList
    \/ MainAfterRead
    \/ MainExit

\* The script is one synchronous thread: a step it can take, it takes.
FairSpec == InitMain /\ [][NextMain]_vars /\ WF_vars(NextMain)

\* ================================================================ claims
\* The first k elements of a sequence.
Take(q, k) == SubSeq(q, 1, k)

\* read_collection has returned from a call in which it opened a cursor.
ReadReturned == pc = "read_ret" /\ cursor # 0

\* C1: with a limit k > 0 and no engine error, read_collection returns at
\* most k records, and on a table of at least k records exactly the first
\* k records in cursor order.
C1_LimitedRead ==
    (ReadReturned /\ ~readErr /\ rlimit.kind = "int" /\ rlimit.val > 0)
        => /\ Len(result) <= rlimit.val
           /\ nrec >= rlimit.val => result = Take(TableRecords(nrec), rlimit.val)

C1_Witness ==
    /\ ReadReturned /\ ~readErr
    /\ rlimit = IntVal(2) /\ nrec = 3
    /\ result = Take(TableRecords(3), 2)

\* C2: with limit None and no engine error, read_collection returns all n
\* records in cursor order, having advanced to exhaustion (n + 1 calls).
C2_UnlimitedRead ==
    (ReadReturned /\ ~readErr /\ rlimit = None)
        => result = TableRecords(nrec) /\ advances = nrec + 1

C2_Witness ==
    /\ ReadReturned /\ ~readErr /\ rlimit = None
    /\ nrec = 3 /\ Len(result) = 3

\* C3, as claimed: every limit <= 0 reads the whole table.
C3_NonPositiveIsNoLimit ==
    (ReadReturned /\ ~readErr /\ rlimit.kind = "int" /\ rlimit.val <= 0)
        => result = TableRecords(nrec)

\* C3, amended: limit 0 reads the whole table; a negative limit stops at
\* the first record and returns the empty list.
C3_ZeroIsNoLimit ==
    (ReadReturned /\ ~readErr /\ rlimit.kind = "int")
        => /\ rlimit.val = 0 => result = TableRecords(nrec)
           /\ rlimit.val < 0 => result = << >> /\ advances = 1

C3_Witness ==
    /\ ReadReturned /\ ~readErr
    /\ rlimit.kind = "int" /\ rlimit.val < 0
    /\ nrec >= 2 /\ result = << >>

\* C4: when read_collection opened a cursor and an engine error occurred
\* during iteration, the cursor is closed when read_collection returns.
C4_CursorClosedOnError ==
    (ReadReturned /\ readErr) => cursor \notin openCursors

\* The latest cursor.next() failed: it did not return 0.
AdvanceFailed == lastAdv.kind # "none" /\ lastAdv # Ret(0)

\* C5, as claimed: only the WT_NOTFOUND status ends the iteration with the
\* records collected so far; after any other failure of cursor.next(),
\* raised errors included, the empty list is returned.
C5_OnlyStatusNotFoundEnds ==
    (ReadReturned /\ AdvanceFailed)
        => IF lastAdv = Ret(WT_NOTFOUND)
           THEN result = Take(TableRecords(nrec), pos)
           ELSE result = << >>

\* A NotFound outcome of cursor.next(): the WT_NOTFOUND status, or a raised
\* error whose text contains "WT_NOTFOUND" or whose errno is WT_NOTFOUND.
NotFoundOutcome(o) ==
    \/ o.kind = "ret" /\ o.code = -31803
    \/ o.kind = "raise" /\ o.exc.msgNF
    \/ o.kind = "raise" /\ o.exc.hasErrno /\ o.exc.errno = -31803

\* C5, amended: a NotFound outcome, returned or raised, ends the iteration
\* with the records collected so far; after any other failure of
\* cursor.next() the empty list is returned.
C5_NotFoundEnds ==
    (ReadReturned /\ AdvanceFailed)
        => IF NotFoundOutcome(lastAdv)
           THEN result = Take(TableRecords(nrec), pos)
           ELSE result = << >>

C5_Witness ==
    /\ ReadReturned
    /\ lastAdv.kind = "raise" /\ lastAdv.exc.msgNF /\ ~lastAdv.exc.hasErrno
    /\ nrec = 3
    /\ result = Take(TableRecords(3), 2)


\* s begins with p, and what follows a prefix of length n.
HasPrefix(s, p) == Len(s) >= Len(p) /\ SubSeq(s, 1, Len(p)) = p
Drop(s, n) == SubSeq(s, n + 1, Len(s))

\* The identifier of a "table:" URI.
Ident(uri) == Drop(uri, 6)

\* The identifiers of a sequence of "table:" URIs, in its order.
Idents(q) == [i \in 1..Len(q) |-> Ident(q[i])]

\* An entry with the "table:" prefix, without the "table:index-" prefix,
\* whose identifier is not "sizeStorer".
ListedExact(uri) ==
    /\ HasPrefix(uri, Str_table)
    /\ ~HasPrefix(uri, Str_table \o Str_index)
    /\ Ident(uri) # Str_sizeStorer

\* C6, as claimed: list_collections returns, in metadata cursor order,
\* exactly the identifiers of the entries with the "table:" prefix, without
\* the "table:index-" prefix, whose identifier is not equal to "sizeStorer".
C6_ListExcludesExactName ==
    (pc = "list_ret" /\ listOutcome = "ok")
        => collections = Idents(SelectSeq(meta, ListedExact))

\* An entry with the "table:" prefix, without the "table:index-" prefix,
\* whose identifier does not begin with "sizeStorer".
ListedPrefix(uri) ==
    /\ HasPrefix(uri, Str_table)
    /\ ~HasPrefix(uri, Str_table \o Str_index)
    /\ ~HasPrefix(Ident(uri), Str_sizeStorer)

\* C6, amended: list_collections returns, in metadata cursor order, exactly
\* the identifiers of the entries whose URI has the "table:" prefix, has
\* not the "table:index-" prefix and has not the "table:sizeStorer" prefix.
C6_ListExcludesPrefix ==
    (pc = "list_ret" /\ listOutcome = "ok")
        => collections = Idents(SelectSeq(meta, ListedPrefix))

C6_Witness ==
    /\ pc = "list_ret" /\ listOutcome = "ok"
    /\ meta = MetaPool
    /\ collections = << <<"a">>, <<"b", ":", "c">> >>

\* s is an integer literal: an optional sign, then one or more digits.
IsIntLiteral(s) ==
    LET b == IF s # << >> /\ Head(s) \in {"+", "-"} THEN Tail(s) ELSE s
    IN  b # << >> /\ Range(b) \subseteq Digits

MainDone == mode = "main" /\ pc = "done"

\* C7, as claimed: main exits 1 exactly when no data directory is given or
\* connect() fails, and 0 on every other run.
C7_ExitOneIffNoDirOrConnectFails ==
    MainDone
        => /\ exitCode \in {0, 1}
           /\ exitCode = 1 <=> (Len(argv) < 2 \/ connRet = "false")

\* C7, amended: main exits 1 exactly when no data directory is given, or
\* connect() fails, or a third argument is given that int() rejects; it
\* exits 0 on every other run.
C7_ExitOneIffNoDirConnectFailsOrBadLimit ==
    MainDone
        => /\ exitCode \in {0, 1}
           /\ exitCode = 1 <=> \/ Len(argv) < 2
                               \/ connRet = "false"
                               \/ Len(argv) > 3 /\ ~IsIntLiteral(argv[4])

C7_Witness ==
    /\ MainDone /\ exitCode = 1
    /\ connRet = "true" /\ Len(argv) = 4 /\ argv[4] = <<"1", "x">>

\* C8, as claimed: a second close() right after a first, and a close() on
\* a reader whose connect() never succeeded, make no engine call, raise
\* nothing and leave session and conn unset.
C8_CloseNoEngineCall ==
    pc = "close_ret"
        => /\ ~closeRaised /\ session = 0 /\ conn = 0
           /\ (lastOp = "close" \/ ~everConnected) => closeCalls = << >>

\* C8, amended: every close() raises nothing and leaves session and conn
\* unset; a second close() right after a first makes no engine call; a
\* close() on a reader whose connect() never succeeded makes no engine
\* call, except the one conn.close() when a failed connect() had already
\* opened the connection.
C8_CloseIdempotent ==
    pc = "close_ret"
        => /\ ~closeRaised /\ session = 0 /\ conn = 0
           /\ lastOp = "close" => closeCalls = << >>
           /\ ~everConnected => closeCalls \in { << >>, <<"conn.close">> }
           /\ ~wtOpened => closeCalls = << >>

C8_Witness ==
    /\ pc = "close_ret" /\ lastOp = "close" /\ everConnected
    /\ closeCalls = << >> /\ session = 0 /\ conn = 0

\* The step of read_collection in which open_cursor fails for a table that
\* does not exist: [] is returned, the reader and the engine are untouched.
C9_MissingTableStep ==
    (pc = "read" /\ pc' = "read_ret" /\ missing')
        => /\ result' = << >>
           /\ session' = session /\ conn' = conn
           /\ openSessions' = openSessions /\ openConns' = openConns
           /\ session' \in openSessions' /\ conn' \in openConns'

\* What follows such a step: the next list or read call has the session and
\* works; main leaves the try block without an exception, closes, exits 0.
C9_AfterMissingTable ==
    /\ (lastOp = "read_missing" /\ pc = "list_ret" /\ listOutcome \notin {"open_fail", "iter_fail"})
         => collections = Idents(SelectSeq(meta, ListedPrefix)) /\ listOutcome = "ok"
    /\ (lastOp = "read_missing" /\ pc = "read_ret" /\ ~readErr)
         => cursor # 0
    /\ (lastOp = "read_missing" /\ pc = "read_ret" /\ ~readErr /\ rlimit = None)
         => result = TableRecords(nrec)
    /\ (mode = "main" /\ pc = "close" /\ missing)
         => ~pendingExc
    /\ (MainDone /\ missing)
         => /\ exitCode = 0
            /\ closeCalls = <<"session.close", "conn.close">>
            /\ session = 0 /\ conn = 0

\* C9: when open_cursor fails in read_collection because the table does
\* not exist, read_collection returns [] and leaves the session and the
\* connection as they were and open; a list_collections or read_collection
\* call that follows still works; main goes on to close the reader and
\* exits 0.
C9_MissingTable == [][C9_MissingTableStep]_vars /\ []C9_AfterMissingTable

C9_Witness ==
    /\ MainDone /\ missing /\ exitCode = 0
    /\ rtable = <<"z", "z">> /\ result = << >>

\* C10: the loop of read_collection terminates, for every table and every
\* limit: it makes at most n + 1 cursor.next() calls on a table of n
\* records, and read_collection returns.
C10_ReadTerminates ==
    /\ [](advances <= nrec + 1)
    /\ (pc = "r_loop") ~> (pc = "read_ret")
    /\ (pc = "read") ~> (pc = "read_ret")

C10_Witness ==
    /\ pc = "read_ret" /\ cursor # 0
    /\ nrec = 3 /\ advances = 4


\* The last close() closed the session.
SessionClosed ==
    /\ pc \in {"close_ret", "done"}
    /\ closeCalls # << >> /\ Head(closeCalls) = "session.close"

\* C11: in every run of main, engine errors included, at most one cursor
\* is open at any time, and every cursor opened on the session is closed
\* before the session is closed.
C11_CursorsClosedBeforeSession ==
    mode = "main"
        => /\ Cardinality(openCursors) <= 1
           /\ SessionClosed => openCursors = {}


\* C12: with a limit k > 0, read_collection makes at most k cursor.next()
\* calls, and once k records are collected they are what it returns,
\* whatever a further cursor.next() would do.
C12_StopsAtLimit ==
    (cursor # 0 /\ rlimit.kind = "int" /\ rlimit.val > 0)
        => /\ advances <= rlimit.val
           /\ (pc = "read_ret" /\ count = rlimit.val)
                => result = Take(TableRecords(nrec), rlimit.val)


\* C13: on every path by which main ends after wiredtiger_open succeeded,
\* the connection has been closed before the process exits, and the
\* session, if opened, was closed before the connection.
C13_ConnectionClosedAtExit ==
    (MainDone /\ wtOpened)
        => /\ openConns = {}
           /\ everConnected
                => openSessions = {} /\ closeCalls = <<"session.close", "conn.close">>


\* C14: no use after close.  A session that is set comes with a connection
\* that is set, and both are open in the engine; before connect() has
\* succeeded and once close() has completed the session is unset, and with
\* the session unset list_collections and read_collection return [] without
\* an engine call; a call that did reach the engine went through an open
\* session.
C14_NoUseAfterClose ==
    /\ session # 0 => conn # 0 /\ session \in openSessions /\ conn \in openConns
    /\ ~everConnected => session = 0
    /\ (pc = "close_ret" \/ (pc = "idle" /\ lastOp = "close")) => session = 0 /\ conn = 0
    /\ (pc = "list_ret" /\ session = 0)
         => listOutcome = "nosession" /\ collections = << >>
    /\ (pc = "read_ret" /\ session = 0)
         => result = << >> /\ cursor = 0 /\ ~readErr /\ advances = 0
    /\ (pc = "list_ret" /\ listOutcome # "nosession") => session \in openSessions
    /\ (pc \in {"r_loop", "r_close"} \/ (pc = "read_ret" /\ (cursor # 0 \/ readErr)))
         => session \in openSessions

C14_Witness ==
    /\ mode = "api" /\ everConnected /\ lastOp = "close"
    /\ pc = "read_ret" /\ session = 0 /\ conn = 0
    /\ result = << >> /\ cursor = 0

====
